---------------------------- MODULE Spec2Model ----------------------------
(***************************************************************************)
(* bottle-swagger: the SwaggerPlugin of src/bottle_swagger/__init__.py.   *)
(* Strings that the plugin computes with (route rules, URLs, base paths)  *)
(* are sequences of one-character strings, so that re.sub, urljoin,       *)
(* startswith, rstrip and lstrip are computed character by character.     *)
(***************************************************************************)
EXTENDS Integers, Sequences, FiniteSets, TLC

VARIABLES
    phase,      \* "new" | "constructed" | "ready" | "failed" | "serving" | "rule" | "path"
    plugin,     \* the SwaggerPlugin instance's attributes (None before __init__)
    app,        \* the routes registered on the Bottle application
    req,        \* the request in hand and what the wrapper made of it (None when idle)
    rule,       \* a route rule handed to the path translation
    path,       \* its translation (NoneStr until translated)
    spec_dict,  \* self.swagger.spec_dict, the document the plugin holds
    threads     \* the server threads answering schema requests

vars == <<phase, plugin, app, req, rule, path, spec_dict, threads>>

\* Python's None where an object is expected, and where a str is expected
None == [type |-> "NoneType"]
NoneStr == <<"None">>

(***************************************************************************)
(* Python string methods on sequences of characters.                       *)
(***************************************************************************)
startswith(s, p) ==
    /\ Len(p) <= Len(s)
    /\ SubSeq(s, 1, Len(p)) = p

RECURSIVE rstrip(_, _)
rstrip(s, c) ==
    IF s # <<>> /\ s[Len(s)] = c THEN rstrip(SubSeq(s, 1, Len(s) - 1), c) ELSE s

RECURSIVE lstrip(_, _)
lstrip(s, c) ==
    IF s # <<>> /\ s[1] = c THEN lstrip(Tail(s), c) ELSE s

\* s.strip("/")
strip(s, c) == lstrip(rstrip(s, c), c)

\* `a or b` on strings: the empty string and None are falsy
OrElse(a, b) == IF a = NoneStr \/ a = <<>> THEN b ELSE a

(***************************************************************************)
(* urljoin(base, url) for a base that is a bare path and a url with no     *)
(* scheme, netloc, query, fragment or dot segment: an empty url gives the  *)
(* base, an absolute url replaces the base's path, a relative url replaces *)
(* what follows the base's last "/".                                       *)
(***************************************************************************)
LastSlash(s) ==
    LET at == {i \in 1..Len(s) : s[i] = "/"}
    IN  IF at = {} THEN 0 ELSE CHOOSE i \in at : \A j \in at : j <= i

urljoin(base, url) ==
    IF url = <<>> THEN base
    ELSE IF url[1] = "/" THEN url
    ELSE IF base = <<>> THEN url
    ELSE IF LastSlash(base) = 0 THEN <<"/">> \o url
    ELSE SubSeq(base, 1, LastSlash(base)) \o url

(***************************************************************************)
(* re.sub(r'/<(.+?)(:.+)?>', r'/{\1}', rule): the leftmost match at each   *)
(* position, group 1 lazy (shortest first), group 2 optional and greedy    *)
(* (tried before skipping it, longest first).                              *)
(***************************************************************************)
\* with group 1 of length k starting at i+2, where the match ends (0: none)
MatchEndWith(s, i, k) ==
    LET p  == i + 2 + k
        qs == {q \in (p + 2)..Len(s) : s[q] = ">"}
    IN  IF p > Len(s) THEN 0
        ELSE IF s[p] = ":" /\ qs # {} THEN CHOOSE q \in qs : \A x \in qs : x <= q
        ELSE IF s[p] = ">" THEN p
        ELSE 0

\* the length of group 1 in the match starting at i (0: no match at i)
MatchGroup1(s, i) ==
    LET ks == {k \in 1..Len(s) : MatchEndWith(s, i, k) # 0}
    IN  IF i + 1 > Len(s) \/ s[i] # "/" \/ s[i + 1] # "<" \/ ks = {} THEN 0
        ELSE CHOOSE k \in ks : \A x \in ks : k <= x

RECURSIVE ReSubFrom(_, _)
ReSubFrom(s, i) ==
    IF i > Len(s) THEN <<>>
    ELSE LET k == MatchGroup1(s, i)
         IN  IF k = 0 THEN <<s[i]>> \o ReSubFrom(s, i + 1)
             ELSE <<"/", "{">> \o SubSeq(s, i + 2, i + 1 + k) \o <<"}">>
                    \o ReSubFrom(s, MatchEndWith(s, i, k) + 1)

\* _swagger_op: the conversion of bottle's "<param>" to swagger's "{param}"
TranslatePath(r) == ReSubFrom(r, 1)


(***************************************************************************)
(* The Swagger document the plugin is given, and what the application      *)
(* registers.  Path names are relative to the document's basePath.         *)
(***************************************************************************)
SchemaPaths ==
    { [method |-> "get", path_name |-> <<"/", "t">>],
      [method |-> "get", path_name |-> <<"/", "t", "/", "{", "i", "}">>],
      [method |-> "get",
       path_name |-> <<"/", "t", "/", "{", "i", "}", "/", "k", "/", "{", "j", "}">>] }

\* the responses every operation of the document declares, and the shape of
\* payload and headers that each one's schema accepts
ResponseShape == [s \in {200, 404} |-> IF s = 200 THEN "A" ELSE "B"]

Route(r, m, cb) == [type |-> "Route", rule |-> r, method |-> m, callback |-> cb]

\* the application's own routes
UserRoutes ==
    { Route(<<"/", "a", "/", "t">>, "GET", "user"),
      Route(<<"/", "a", "/", "t">>, "POST", "user"),
      Route(<<"/", "a", "/", "t", "/", "<", "i", ":", "n", ">">>, "GET", "user"),
      Route(<<"/", "a", "/", "t", "/", "<", "i", ":", "n", ">", "/", "k", "/", "<", "j", ">">>,
            "GET", "user"),
      Route(<<"/", "a", "/", "x">>, "GET", "user"),
      Route(<<"/", "a", "b">>, "GET", "user"),
      Route(<<"/", "t">>, "GET", "user"),
      Route(<<"/", "o">>, "GET", "user") }

(***************************************************************************)
(* SwaggerPlugin.__init__                                                  *)
(***************************************************************************)
DefaultHandlers ==
    [invalid_request_handler      |-> "default_bad_request_handler",
     invalid_response_handler     |-> "default_server_error_handler",
     swagger_op_not_found_handler |-> "default_not_found_handler",
     exception_handler            |-> "default_server_error_handler"]

CustomHandlers ==
    [invalid_request_handler      |-> "custom",
     invalid_response_handler     |-> "custom",
     swagger_op_not_found_handler |-> "custom",
     exception_handler            |-> "custom"]

\* the constructor's arguments
InitArgs ==
    [ well_formed                 : BOOLEAN,                   \* swagger_def is a valid document
      basePath                    : {NoneStr, <<"/", "a">>},   \* swagger_def's
      swagger_base_path           : {NoneStr, <<"/", "a", "/">>},
      validate_requests           : BOOLEAN,
      validate_responses          : BOOLEAN,
      ignore_undefined_api_routes : BOOLEAN,
      auto_jsonify                : BOOLEAN,
      handlers                    : {DefaultHandlers, CustomHandlers},
      adjust_api_base_path        : {TRUE},
      serve_swagger_schema        : BOOLEAN,
      swagger_schema_suburl       : {<<"/", "s">>, <<"s", "/">>},
      serve_swagger_ui            : BOOLEAN,
      swagger_ui_suburl           : {<<"/", "u", "/">>, <<"/", "u">>, <<"u", "/">>} ]

\* urlparse(self.swagger.api_url).path: the document's basePath after the
\* override, "/" when the document declares none
ApiUrlPath(a) ==
    IF a.swagger_base_path # NoneStr THEN a.swagger_base_path
    ELSE IF a.basePath # NoneStr THEN a.basePath
    ELSE <<"/">>

\* line 232 reads self.serve_swagger_ui, which line 233 is the first to set
InitRaises(a) == ~a.serve_swagger_schema

\* Spec.from_dict raises on a document that is malformed or fails validation
FromDictRaises(a) == ~a.well_formed

\* what __init__ raises, None when it completes
InitException(a) ==
    IF InitRaises(a) THEN [type |-> "exception", cls |-> "AttributeError", src |-> "self.serve_swagger_ui"]
    ELSE IF FromDictRaises(a) THEN [type |-> "exception", cls |-> "Exception", src |-> "Spec.from_dict"]
    ELSE None

\* swagger_def after the override: the document self.swagger holds.  A
\* basePath of NoneStr is a document without the field.
SpecDict(a) ==
    [ type     |-> "dict",
      basePath |-> IF a.swagger_base_path # NoneStr THEN a.swagger_base_path ELSE a.basePath,
      paths    |-> SchemaPaths ]

SwaggerBasePath(a) == OrElse(a.swagger_base_path, OrElse(ApiUrlPath(a), <<"/">>))

FixedBasePath(a) == rstrip(SwaggerBasePath(a), "/") \o <<"/">>

SwaggerSchemaUrl(a) == urljoin(FixedBasePath(a), lstrip(a.swagger_schema_suburl, "/"))

SwaggerUiBaseUrl(a) == urljoin(FixedBasePath(a), lstrip(a.swagger_ui_suburl, "/"))

\* the attributes of the constructed instance
SwaggerPlugin(a) ==
    [ type                         |-> "SwaggerPlugin",
      ignore_undefined_routes      |-> a.ignore_undefined_api_routes,
      auto_jsonify                 |-> a.auto_jsonify,
      invalid_request_handler      |-> a.handlers.invalid_request_handler,
      invalid_response_handler     |-> a.handlers.invalid_response_handler,
      swagger_op_not_found_handler |-> a.handlers.swagger_op_not_found_handler,
      exception_handler            |-> a.handlers.exception_handler,
      serve_swagger_schema         |-> a.serve_swagger_schema,
      serve_swagger_ui             |-> a.serve_swagger_ui,
      swagger_schema_suburl        |-> a.swagger_schema_suburl,
      swagger_ui_suburl            |-> a.swagger_ui_suburl,
      validate_requests            |-> a.validate_requests,
      validate_responses           |-> a.validate_responses,
      api_url_path                 |-> ApiUrlPath(a),
      swagger_base_path            |-> SwaggerBasePath(a),
      adjust_api_base_path         |-> a.adjust_api_base_path,
      swagger_schema_url           |-> SwaggerSchemaUrl(a),
      swagger_ui_base_url          |-> SwaggerUiBaseUrl(a) ]

(***************************************************************************)
(* SwaggerPlugin.setup: the routes the plugin adds to the application.     *)
(***************************************************************************)
SwaggerUiAssetsRule(self) == urljoin(self.swagger_ui_base_url, <<"<", "p", ":", "p", ">">>)

SetupRoutes(self) ==
    (IF self.serve_swagger_schema
        THEN {Route(self.swagger_schema_url, "GET", "swagger_schema")} ELSE {})
    \cup
    (IF self.serve_swagger_ui
        THEN {Route(self.swagger_ui_base_url, "GET", "swagger_ui_index"),
              Route(SwaggerUiAssetsRule(self), "GET", "swagger_ui_assets")}
        ELSE {})

(***************************************************************************)
(* One request.  bottle's request and response objects are per request:    *)
(* ctx holds the response's status and content type, the attributes the    *)
(* wrapper attaches to the request, and the calls made so far, in order.   *)
(* Every call yields an outcome: it returns val or raises val.             *)
(***************************************************************************)
NewCtx ==
    [ status       |-> 200,
      content_type |-> "text/html",
      swagger_op   |-> None,
      swagger_data |-> None,
      log          |-> <<>> ]

Ret(ctx, v) == [ctx |-> ctx, raised |-> FALSE, val |-> v]
Raise(ctx, e) == [ctx |-> ctx, raised |-> TRUE, val |-> e]

\* the outcome o of calling ev with arg, entered in the log with the
\* response status the call leaves behind and with what is attached to the
\* request while it runs
Logged(ev, arg, o) ==
    [o EXCEPT !.ctx.log =
        Append(@, [ev |-> ev, arg |-> arg, raised |-> o.raised, val |-> o.val,
                   status |-> o.ctx.status,
                   swagger_op |-> o.ctx.swagger_op,
                   swagger_data |-> o.ctx.swagger_data])]

\* an exception of class cls raised by src.  "Exception" stands for any
\* Exception subclass not named here, "BaseException" for one that is no
\* Exception (KeyboardInterrupt, SystemExit, GeneratorExit).
Exc(cls, src) == [type |-> "exception", cls |-> cls, src |-> src]
ExceptionClasses ==
    {"ValidationError", "MatchingResponseNotFound", "HTTPResponse", "Exception", "BaseException"}
IsException(e) == e.cls # "BaseException"
IsHTTPResponse(e) == e.cls = "HTTPResponse"

str(x) == [type |-> "str", of |-> x]

(***************************************************************************)
(* The error handlers.                                                     *)
(***************************************************************************)
error_response(ctx, status, e) ==
    Ret([ctx EXCEPT !.status = status],
        [type |-> "dict", code |-> status, message |-> str(e)])

default_server_error_handler(ctx, e) == error_response(ctx, 500, e)

\* mutant: the bad-request handler answers with the server-error status
default_bad_request_handler_500(ctx, e) == error_response(ctx, 500, e)

default_bad_request_handler(ctx, e) == error_response(ctx, 400, e)

default_not_found_handler(ctx, r) == error_response(ctx, 404, r)

\* what a handler that the application supplied may do
HandlerBehaviours == {"return", "raise_http", "raise"}

CustomHandler(ctx, name, arg, hb) ==
    CASE hb = "return"     -> Ret(ctx, [type |-> "custom", by |-> name, of |-> arg])
      [] hb = "raise_http" -> Raise(ctx, Exc("HTTPResponse", name))
      [] hb = "raise"      -> Raise(ctx, Exc("Exception", name))

\* self.<name>(arg)
CallHandler(self, ctx, name, arg, hb) ==
    LET h == self[name]
    IN  Logged(name, arg,
          CASE h = "default_bad_request_handler"  -> default_bad_request_handler(ctx, arg)
            [] h = "default_server_error_handler" -> default_server_error_handler(ctx, arg)
            [] h = "default_not_found_handler"    -> default_not_found_handler(ctx, arg)
            [] OTHER                              -> CustomHandler(ctx, name, arg, hb))

(***************************************************************************)
(* The route's callback.                                                   *)
(***************************************************************************)
Value(t, shape, enc) == [type |-> t, shape |-> shape, encodable |-> enc]

\* what an application callback may do: return a value, having set the
\* response status or not (0: not set), or raise
UserCallbacks ==
    { [raises |-> FALSE, status |-> 0,   val |-> Value("dict", "A", TRUE)],
      [raises |-> FALSE, status |-> 0,   val |-> Value("dict", "B", TRUE)],
      [raises |-> FALSE, status |-> 404, val |-> Value("dict", "A", TRUE)],
      [raises |-> FALSE, status |-> 404, val |-> Value("dict", "B", TRUE)],
      [raises |-> FALSE, status |-> 418, val |-> Value("dict", "A", TRUE)],
      [raises |-> FALSE, status |-> 0,   val |-> Value("list", "A", TRUE)],
      [raises |-> FALSE, status |-> 0,   val |-> Value("str", "A", TRUE)],
      [raises |-> FALSE, status |-> 0,   val |-> Value("Model", "A", FALSE)],
      [raises |-> FALSE, status |-> 0,   val |-> Value("dict", "A", FALSE)] }
    \cup
    { [raises |-> TRUE, status |-> 0, val |-> Exc(c, "callback")] : c \in ExceptionClasses }

\* the plugin's own callbacks: swagger_schema returns the spec dict,
\* swagger_ui_index the rendered page, swagger_ui_assets static_file's response
PluginCallback(name) ==
    CASE name = "swagger_schema"    -> Value("dict", "spec_dict", TRUE)
      [] name = "swagger_ui_index"  -> Value("str", "index.html", TRUE)
      [] name = "swagger_ui_assets" -> Value("HTTPResponse", "static_file", FALSE)

Callbacks(route) ==
    IF route.callback = "user" THEN UserCallbacks
    ELSE {[raises |-> FALSE, status |-> 0, val |-> PluginCallback(route.callback)]}

\* callback(*args, **kwargs); the log keeps what the callback did this time
Callback(ctx, cb) ==
    Logged("callback", cb,
        IF cb.raises THEN Raise(ctx, cb.val)
        ELSE Ret([ctx EXCEPT !.status = IF cb.status = 0 THEN @ ELSE cb.status], cb.val))

(***************************************************************************)
(* The calls into bravado-core and bottle.                                 *)
(***************************************************************************)
lower(m) == IF m = "GET" THEN "get" ELSE IF m = "POST" THEN "post" ELSE m

\* mutant: the operations are keyed by the basePath the document has now
get_op_for_request_live(self, http_method, path_pattern) ==
    LET found == {op \in SchemaPaths :
                    /\ op.method = lower(http_method)
                    /\ rstrip(OrElse(spec_dict.basePath, <<"/">>), "/") \o op.path_name = path_pattern}
    IN  IF found = {} THEN None
        ELSE LET op == CHOOSE op \in found : TRUE
             IN  [type |-> "Operation", method |-> op.method, path_name |-> op.path_name]

\* self.swagger.get_op_for_request(request.method, path): the operations are
\* keyed by method and by the api url's path, right-stripped, plus the path name
get_op_for_request(self, http_method, path_pattern) ==
    LET found == {op \in SchemaPaths :
                    /\ op.method = lower(http_method)
                    /\ rstrip(self.api_url_path, "/") \o op.path_name = path_pattern}
    IN  IF found = {} THEN None
        ELSE LET op == CHOOSE op \in found : TRUE
             IN  [type |-> "Operation", method |-> op.method, path_name |-> op.path_name]

\* _swagger_op(route)
swagger_op_for(self, route) ==
    get_op_for_request(self, route.method, TranslatePath(route.rule))

\* what bravado-core finds in the request: it conforms to the operation, it
\* violates its schema, or it cannot be unmarshalled at all
RequestKinds == {"valid", "invalid", "malformed"}

\* _validate_request(swagger_op): unmarshal_request validates when the
\* configuration says so
validate_request(self, ctx, swagger_op, kind) ==
    Logged("_validate_request", swagger_op,
        IF kind = "malformed" THEN Raise(ctx, Exc("Exception", "unmarshal_request"))
        ELSE IF kind = "invalid" /\ self.validate_requests
            THEN Raise(ctx, Exc("ValidationError", "unmarshal_request"))
        ELSE Ret(ctx, [type |-> "swagger_data", op |-> swagger_op, of |-> kind]))

\* mutant: the response schema is always the one declared for status 200
validate_response_of_200(self, ctx, swagger_op, result) ==
    Logged("_validate_response", result,
        IF self.validate_responses /\ result.shape # ResponseShape[200]
            THEN Raise(ctx, Exc("ValidationError", "validate_response"))
        ELSE Ret(ctx, None))

\* _validate_response(swagger_op, result): get_response_spec looks the
\* response's status up, then validate_response validates when the
\* configuration says so
validate_response(self, ctx, swagger_op, result) ==
    Logged("_validate_response", result,
        IF ctx.status \notin DOMAIN ResponseShape
            THEN Raise(ctx, Exc("MatchingResponseNotFound", "get_response_spec"))
        ELSE IF self.validate_responses /\ result.shape # ResponseShape[ctx.status]
            THEN Raise(ctx, Exc("ValidationError", "validate_response"))
        ELSE Ret(ctx, None))

\* mutant: the value is handed back as it is
json_dumps_identity(ctx, v) ==
    Logged("json_dumps", v,
        IF v.encodable THEN Ret(ctx, v)
        ELSE Raise(ctx, Exc("Exception", "json_dumps")))

\* bottle's json_dumps: the text of v, or a TypeError for what JSON cannot encode
json_dumps(ctx, v) ==
    Logged("json_dumps", v,
        IF v.encodable THEN Ret(ctx, [type |-> "json", of |-> v])
        ELSE Raise(ctx, Exc("Exception", "json_dumps")))

(***************************************************************************)
(* SwaggerPlugin._swagger_validate                                         *)
(***************************************************************************)
\* request.environ['SCRIPT_NAME']: where the application is mounted
ScriptNames == {<<>>, <<"/", "m">>}

\* what the environment decides during one request
Envs(self, route) ==
    [ kind : RequestKinds,
      cb   : Callbacks(route),
      hb   : IF self.invalid_request_handler = "custom" THEN HandlerBehaviours ELSE {"return"},
      hx   : IF self.exception_handler = "custom" THEN {"return", "raise"} ELSE {"return"},
      script_name : IF route.callback = "swagger_schema" THEN ScriptNames ELSE {<<>>} ]

\* mutant: the except clause re-raises whatever it catches
ExceptClause_reraise(self, ctx, e, env) == Raise(ctx, e)

\* mutant: the except clause hands an HTTPResponse to the handler like any other
ExceptClause_no_signal(self, ctx, e, env) ==
    IF ~IsException(e) THEN Raise(ctx, e)
    ELSE CallHandler(self, ctx, "exception_handler", e, env.hx)

\* lines 317-322: the except clause around the validated part
ExceptClause(self, ctx, e, env) ==
    IF ~IsException(e) THEN Raise(ctx, e)
    ELSE IF IsHTTPResponse(e) THEN Raise(ctx, e)
    ELSE CallHandler(self, ctx, "exception_handler", e, env.hx)

\* an outcome reached inside the try block: what it raises meets the except clause
InTry(self, o, env) ==
    IF o.raised THEN ExceptClause(self, o.ctx, o.val, env) ELSE o

\* mutant: the `not` of the base-path test is missing
PassesThrough_not_dropped(self, route) ==
    \/ startswith(route.rule, self.swagger_base_path)
    \/ self.ignore_undefined_routes
    \/ self.serve_swagger_schema /\ route.rule = self.swagger_schema_url
    \/ self.serve_swagger_ui /\ startswith(route.rule, self.swagger_ui_base_url)

\* mutant: the base-path test has its operands the wrong way round
PassesThrough_swapped(self, route) ==
    \/ ~startswith(self.swagger_base_path, route.rule)
    \/ self.ignore_undefined_routes
    \/ self.serve_swagger_schema /\ route.rule = self.swagger_schema_url
    \/ self.serve_swagger_ui /\ startswith(route.rule, self.swagger_ui_base_url)

\* mutant: ignore_undefined_routes is not consulted
PassesThrough_no_ignore(self, route) ==
    \/ ~startswith(route.rule, self.swagger_base_path)
    \/ self.serve_swagger_schema /\ route.rule = self.swagger_schema_url
    \/ self.serve_swagger_ui /\ startswith(route.rule, self.swagger_ui_base_url)

\* lines 288-297: no operation was found
PassesThrough(self, route) ==
    \/ ~startswith(route.rule, self.swagger_base_path)
    \/ self.ignore_undefined_routes
    \/ self.serve_swagger_schema /\ route.rule = self.swagger_schema_url
    \/ self.serve_swagger_ui /\ startswith(route.rule, self.swagger_ui_base_url)

Unmatched(self, ctx, route, env) ==
    IF PassesThrough(self, route) THEN Callback(ctx, env.cb)
    ELSE CallHandler(self, ctx, "swagger_op_not_found_handler", route, env.hb)

\* lines 309-316: the callback has returned result
AfterCallback(self, ctx, swagger_op, result, env) ==
    LET vr == validate_response(self, ctx, swagger_op, result)
    IN  IF vr.raised /\ vr.val.cls \in {"ValidationError", "MatchingResponseNotFound"}
            THEN InTry(self, CallHandler(self, vr.ctx, "invalid_response_handler", vr.val, env.hb), env)
        ELSE IF vr.raised THEN ExceptClause(self, vr.ctx, vr.val, env)
        ELSE IF self.auto_jsonify /\ result.type \in {"dict", "list"}
            THEN LET js == json_dumps(vr.ctx, result)
                 IN  IF js.raised THEN ExceptClause(self, js.ctx, js.val, env)
                     ELSE Ret([js.ctx EXCEPT !.content_type = "application/json"], js.val)
        ELSE Ret(vr.ctx, result)

\* mutant: the validated request data is attached after the callback has run
Matched_attach_late(self, ctx, swagger_op, env) ==
    LET c1 == [ctx EXCEPT !.swagger_op = swagger_op]
        rq == validate_request(self, c1, swagger_op, env.kind)
    IN  IF rq.raised /\ rq.val.cls = "ValidationError"
            THEN InTry(self, CallHandler(self, rq.ctx, "invalid_request_handler", rq.val, env.hb), env)
        ELSE IF rq.raised THEN ExceptClause(self, rq.ctx, rq.val, env)
        ELSE LET cb == Callback(rq.ctx, env.cb)
                 c2 == [cb.ctx EXCEPT !.swagger_data = rq.val]
             IN  IF cb.raised THEN ExceptClause(self, c2, cb.val, env)
                 ELSE AfterCallback(self, c2, swagger_op, cb.val, env)

\* lines 299-324: an operation was found
Matched(self, ctx, swagger_op, env) ==
    LET c1 == [ctx EXCEPT !.swagger_op = swagger_op]
        rq == validate_request(self, c1, swagger_op, env.kind)
    IN  IF rq.raised /\ rq.val.cls = "ValidationError"
            THEN InTry(self, CallHandler(self, rq.ctx, "invalid_request_handler", rq.val, env.hb), env)
        ELSE IF rq.raised THEN ExceptClause(self, rq.ctx, rq.val, env)
        ELSE LET c2 == [rq.ctx EXCEPT !.swagger_data = rq.val]
                 cb == Callback(c2, env.cb)
             IN  IF cb.raised THEN ExceptClause(self, cb.ctx, cb.val, env)
                 ELSE AfterCallback(self, cb.ctx, swagger_op, cb.val, env)

swagger_validate(self, route, env) ==
    LET lk == Logged("_swagger_op", route, Ret(NewCtx, swagger_op_for(self, route)))
    IN  IF lk.val = None THEN Unmatched(self, lk.ctx, route, env)
        ELSE Matched(self, lk.ctx, lk.val, env)

(***************************************************************************)
(* The schema endpoint that setup registers.                               *)
(***************************************************************************)
\* swagger_schema(): the document after the call.  The function writes the
\* basePath of the one dict the plugin holds and returns that dict.
swagger_schema(self, d, script_name) ==
    IF self.adjust_api_base_path /\ d.basePath # NoneStr
    THEN [d EXCEPT !.basePath =
            urljoin(urljoin(<<"/">>, strip(script_name, "/") \o <<"/">>),
                    lstrip(self.swagger_base_path, "/"))]
    ELSE d

\* the wrapper's run for route got as far as calling swagger_schema
CallsSwaggerSchema(route, out) ==
    /\ route.callback = "swagger_schema"
    /\ \E i \in 1..Len(out.ctx.log) : out.ctx.log[i].ev = "callback"

(***************************************************************************)
(* The state machine.                                                      *)
(***************************************************************************)
Init ==
    /\ phase = "new"
    /\ plugin = None
    /\ app = UserRoutes
    /\ req = None
    /\ rule = <<>>
    /\ path = NoneStr
    /\ spec_dict = None
    /\ threads = <<>>

\* SwaggerPlugin(swagger_def, ...); when __init__ raises there is no
\* instance, and plugin keeps the exception
Construct ==
    /\ phase = "new"
    /\ \E a \in InitArgs :
          IF InitException(a) # None
          THEN phase' = "failed" /\ plugin' = InitException(a) /\ spec_dict' = None
          ELSE phase' = "constructed" /\ plugin' = SwaggerPlugin(a) /\ spec_dict' = SpecDict(a)
    /\ UNCHANGED <<app, req, rule, path, threads>>

\* app.install(plugin): setup(app)
Setup ==
    /\ phase = "constructed"
    /\ phase' = "ready"
    /\ app' = app \cup SetupRoutes(plugin)
    /\ UNCHANGED <<plugin, req, rule, path, spec_dict, threads>>

\* the wrapper that apply() put around a route's callback handles a request
Request ==
    /\ phase = "ready"
    /\ req = None
    /\ \E route \in app :
       \E env \in Envs(plugin, route) :
          LET out == swagger_validate(plugin, route, env)
          IN  /\ req' = [type |-> "request", route |-> route, out |-> out]
              /\ spec_dict' = IF CallsSwaggerSchema(route, out)
                                 THEN swagger_schema(plugin, spec_dict, env.script_name)
                                 ELSE spec_dict
    /\ UNCHANGED <<phase, plugin, app, rule, path, threads>>

\* the request is over: bottle binds a fresh request and response to the next
Finish ==
    /\ phase = "ready"
    /\ req # None
    /\ req' = None
    /\ UNCHANGED <<phase, plugin, app, rule, path, spec_dict, threads>>

Next == Construct \/ Setup \/ Request \/ Finish

Spec == Init /\ [][Next]_vars

(***************************************************************************)
(* The schema endpoint under a server that answers requests in several     *)
(* threads.  All threads share the one plugin and the one dict it holds;   *)
(* swagger_schema hands that dict itself back, and bottle turns it into    *)
(* the response body after the callback has returned.                      *)
(***************************************************************************)
Threads == {"t1", "t2"}

IdleThread == [pc |-> "idle", script_name |-> <<>>, basePath |-> NoneStr]

\* a plugin that serves its schema, all else as the constructor defaults it
SchemaArgs ==
    { a \in InitArgs :
        /\ a.well_formed
        /\ a.validate_requests
        /\ a.validate_responses
        /\ ~a.ignore_undefined_api_routes
        /\ a.auto_jsonify
        /\ a.handlers = DefaultHandlers
        /\ a.serve_swagger_schema
        /\ a.swagger_schema_suburl = <<"/", "s">>
        /\ ~a.serve_swagger_ui
        /\ a.swagger_ui_suburl = <<"/", "u", "/">> }

InitSchema ==
    /\ phase = "serving"
    /\ \E a \in SchemaArgs :
          /\ plugin = SwaggerPlugin(a)
          /\ spec_dict = SpecDict(a)
          /\ app = UserRoutes \cup SetupRoutes(SwaggerPlugin(a))
    /\ req = None
    /\ rule = <<>>
    /\ path = NoneStr
    /\ threads = [t \in Threads |-> IdleThread]

\* thread t runs swagger_schema() for a request that came in under script_name
SchemaCall(t) ==
    /\ phase = "serving"
    /\ threads[t].pc = "idle"
    /\ \E script_name \in ScriptNames :
          /\ spec_dict' = swagger_schema(plugin, spec_dict, script_name)
          /\ threads' = [threads EXCEPT ![t] =
                [pc |-> "returned", script_name |-> script_name, basePath |-> NoneStr]]
    /\ UNCHANGED <<phase, plugin, app, req, rule, path>>

\* the dict that thread t's call returned is written out as the response
\* body: the body carries the basePath the dict has at that moment
SchemaRespond(t) ==
    /\ phase = "serving"
    /\ threads[t].pc = "returned"
    /\ threads' = [threads EXCEPT ![t].pc = "responded", ![t].basePath = spec_dict.basePath]
    /\ UNCHANGED <<phase, plugin, app, req, rule, path, spec_dict>>

\* thread t is free for the next request
SchemaFinish(t) ==
    /\ phase = "serving"
    /\ threads[t].pc = "responded"
    /\ threads' = [threads EXCEPT ![t] = IdleThread]
    /\ UNCHANGED <<phase, plugin, app, req, rule, path, spec_dict>>

NextSchema == \E t \in Threads : SchemaCall(t) \/ SchemaRespond(t) \/ SchemaFinish(t)

SpecSchema == InitSchema /\ [][NextSchema]_vars

(***************************************************************************)
(* The path translation on its own: route rules built from literal and     *)
(* placeholder segments, each translated once.                             *)
(***************************************************************************)
\* the most segments a rule has
MaxSegments == 3

Segments ==
    { [kind |-> "literal",     name |-> <<"t">>,      modifier |-> NoneStr],
      [kind |-> "placeholder", name |-> <<"i">>,      modifier |-> NoneStr],
      [kind |-> "placeholder", name |-> <<"i">>,      modifier |-> <<"n">>],
      [kind |-> "placeholder", name |-> <<"j", "d">>, modifier |-> NoneStr],
      [kind |-> "placeholder", name |-> <<"j", "d">>, modifier |-> <<"n">>] }

\* the segment as bottle writes it: /name, /<name> or /<name:modifier>
SegmentText(g) ==
    IF g.kind = "literal" THEN <<"/">> \o g.name
    ELSE IF g.modifier = NoneStr THEN <<"/", "<">> \o g.name \o <<">">>
    ELSE <<"/", "<">> \o g.name \o <<":">> \o g.modifier \o <<">">>

RECURSIVE RuleText(_)
RuleText(gs) == IF gs = <<>> THEN <<>> ELSE SegmentText(Head(gs)) \o RuleText(Tail(gs))

Rules == UNION {[1..n -> Segments] : n \in 1..MaxSegments}

InitPath ==
    /\ phase = "rule"
    /\ plugin = None
    /\ app = {}
    /\ req = None
    /\ rule \in Rules
    /\ path = NoneStr
    /\ spec_dict = None
    /\ threads = <<>>

\* path = re.sub(..., route.rule)
Translate ==
    /\ phase = "rule"
    /\ phase' = "path"
    /\ path' = TranslatePath(RuleText(rule))
    /\ UNCHANGED <<plugin, app, req, rule, spec_dict, threads>>

NextPath == Translate

SpecPath == InitPath /\ [][NextPath]_vars

(***************************************************************************)
(* Properties.  A request's outcome is read off req once the wrapper has   *)
(* handled it: Log is the calls it made, in order, the first of them the   *)
(* operation lookup.                                                       *)
(***************************************************************************)
Handled == phase = "ready" /\ req # None

Log == req.out.ctx.log

Calls(ev) == {i \in 1..Len(Log) : Log[i].ev = ev}

\* the lookup found an operation for the route
FoundOp == Log[1].val # None

\* the wrapper returns what call i returned
ReturnsResultOf(i) == ~req.out.raised /\ req.out.val = Log[i].val

\* call i is followed at once by handler h, given what call i raised
HandedTo(i, h) ==
    /\ i < Len(Log)
    /\ Log[i + 1].ev = h
    /\ Log[i + 1].arg = Log[i].val

ErrorBody(status, e) == [type |-> "dict", code |-> status, message |-> str(e)]

ErrorHandlers ==
    {"invalid_request_handler", "invalid_response_handler",
     "swagger_op_not_found_handler", "exception_handler"}

\* call i raised a validation error that its own step handles
RequestInvalid(i) ==
    /\ Log[i].ev = "_validate_request"
    /\ Log[i].raised
    /\ Log[i].val.cls = "ValidationError"

ResponseInvalid(i) ==
    /\ Log[i].ev = "_validate_response"
    /\ Log[i].raised
    /\ Log[i].val.cls \in {"ValidationError", "MatchingResponseNotFound"}

\* C1: when request validation raises a validation error the callback is
\* never invoked, the invalid-request handler is invoked with that error and
\* what it returns is what the wrapper returns; the default handler sets
\* status 400 and returns {code: 400, message: str(error)}.
C1_InvalidRequest ==
    Handled =>
        \A i \in 1..Len(Log) : RequestInvalid(i) =>
            /\ Calls("callback") = {}
            /\ HandedTo(i, "invalid_request_handler")
            /\ ~Log[i + 1].raised => ReturnsResultOf(i + 1)
            /\ plugin.invalid_request_handler = "default_bad_request_handler" =>
                  /\ ~req.out.raised
                  /\ req.out.ctx.status = 400
                  /\ req.out.val = ErrorBody(400, Log[i].val)

C1_Witness ==
    /\ Handled
    /\ \E i \in 1..Len(Log) : RequestInvalid(i)
    /\ plugin.invalid_request_handler = "default_bad_request_handler"
    /\ req.out.ctx.status = 400

\* C2: on a matched route whose request passed validation, response
\* validation runs right after the callback has returned, and only then; it
\* is against the schema of the status the callback left (200 when it set
\* none); when no schema is declared for that status, or when response
\* validation (enabled) finds payload or headers violating it, the
\* invalid-response handler is invoked with the error and what it returns is
\* what the wrapper returns (status 500 and {code: 500, ...} by default);
\* the callback has run exactly once.
StatusSetBy(cb) == IF cb.status = 0 THEN 200 ELSE cb.status

ViolatesResponseSchema(st, result) ==
    \/ st \notin DOMAIN ResponseShape
    \/ plugin.validate_responses /\ result.shape # ResponseShape[st]

C2_ResponseValidation ==
    Handled =>
        /\ \A i \in 1..Len(Log) :
              (FoundOp /\ Log[i].ev = "callback" /\ ~Log[i].raised) =>
                  /\ i < Len(Log)
                  /\ Log[i + 1].ev = "_validate_response"
        /\ \A i \in 1..Len(Log) : Log[i].ev = "_validate_response" =>
              /\ i > 1
              /\ Log[i - 1].ev = "callback"
              /\ ~Log[i - 1].raised
              /\ Log[i].arg = Log[i - 1].val
              /\ Cardinality(Calls("callback")) = 1
              /\ Log[i].raised <=>
                    ViolatesResponseSchema(StatusSetBy(Log[i - 1].arg), Log[i - 1].val)
              /\ Log[i].raised =>
                    /\ HandedTo(i, "invalid_response_handler")
                    /\ ~Log[i + 1].raised => ReturnsResultOf(i + 1)
                    /\ plugin.invalid_response_handler = "default_server_error_handler" =>
                          /\ ~req.out.raised
                          /\ req.out.ctx.status = 500
                          /\ req.out.val = ErrorBody(500, Log[i].val)

C2_Witness ==
    /\ Handled
    /\ \E i \in 1..Len(Log) :
          /\ ResponseInvalid(i)
          /\ Log[i].val.cls = "ValidationError"
          /\ Log[i - 1].arg.status = 404
    /\ plugin.invalid_response_handler = "default_server_error_handler"
    /\ req.out.ctx.status = 500

\* C3 as stated: every exception (instance of Exception) raised in steps
\* 1-6 by the lookup, the callback, a validation or the serialization, other
\* than an HTTPResponse and other than the validation errors the steps
\* themselves handle, is passed to the generic exception handler, whose
\* result is returned; none escapes the wrapper.  What an error handler
\* itself raises is left out of the statement.
C3_Stated ==
    Handled =>
        /\ \A i \in 1..Len(Log) :
              ( /\ Log[i].raised
                /\ Log[i].ev \notin ErrorHandlers
                /\ ~RequestInvalid(i)
                /\ ~ResponseInvalid(i)
                /\ IsException(Log[i].val)
                /\ ~IsHTTPResponse(Log[i].val) ) =>
                    /\ HandedTo(i, "exception_handler")
                    /\ ~Log[i + 1].raised => ReturnsResultOf(i + 1)
        /\ req.out.raised =>
              \/ IsHTTPResponse(req.out.val)
              \/ ~IsException(req.out.val)
              \/ Log[Len(Log)].ev \in ErrorHandlers

\* C3 as amended: on a route that resolved to an operation, every exception
\* that is an instance of Exception, other than an HTTPResponse and other
\* than the validation errors the steps themselves handle, raised by request
\* validation, the callback, response validation, serialization or the
\* invalid-request and invalid-response handlers, is passed to the generic
\* exception handler, whose result is returned.  What escapes the wrapper is
\* an HTTPResponse, an exception that is no Exception, an exception raised by
\* the generic handler itself, or an exception raised on a route with no
\* operation (by the passed-through callback or the not-found handler).
C3_Amended ==
    Handled =>
        /\ \A i \in 1..Len(Log) :
              ( /\ FoundOp
                /\ Log[i].raised
                /\ Log[i].ev # "exception_handler"
                /\ ~RequestInvalid(i)
                /\ ~ResponseInvalid(i)
                /\ IsException(Log[i].val)
                /\ ~IsHTTPResponse(Log[i].val) ) =>
                    /\ HandedTo(i, "exception_handler")
                    /\ ~Log[i + 1].raised => ReturnsResultOf(i + 1)
        /\ req.out.raised =>
              /\ req.out.val = Log[Len(Log)].val
              /\ \/ IsHTTPResponse(req.out.val)
                 \/ ~IsException(req.out.val)
                 \/ Log[Len(Log)].ev = "exception_handler"
                 \/ ~FoundOp

C3_Witness ==
    /\ Handled
    /\ FoundOp
    /\ \E i \in 1..Len(Log) :
          /\ Log[i].ev \in {"callback", "json_dumps"}
          /\ Log[i].raised
          /\ Log[i].val.cls = "Exception"
          /\ HandedTo(i, "exception_handler")
          /\ ReturnsResultOf(i + 1)

(***************************************************************************)
(* The path translation.                                                   *)
(***************************************************************************)
\* what a segment is to become: a literal itself, a placeholder /{name}
ExpectedSegment(g) ==
    IF g.kind = "literal" THEN <<"/">> \o g.name
    ELSE <<"/", "{">> \o g.name \o <<"}">>

RECURSIVE ExpectedPath(_)
ExpectedPath(gs) ==
    IF gs = <<>> THEN <<>> ELSE ExpectedSegment(Head(gs)) \o ExpectedPath(Tail(gs))

\* C4: the translation rewrites every placeholder segment /<ident> or
\* /<ident:modifier> of a rule to /{ident} and leaves every literal segment
\* unchanged, for any number of placeholders in any order.
C4_EveryPlaceholderRewritten ==
    phase = "path" => path = ExpectedPath(rule)

(***************************************************************************)
(* Routes with no operation.                                               *)
(***************************************************************************)
OutsideBasePath == ~startswith(req.route.rule, plugin.swagger_base_path)

\* the wrapper did nothing but call the callback after the lookup: what the
\* callback returned or raised is the wrapper's outcome, nothing is attached
\* to the request and the content type is as bottle set it
DelegatedDirectly ==
    /\ Len(Log) = 2
    /\ Log[2].ev = "callback"
    /\ req.out.raised = Log[2].raised
    /\ req.out.val = Log[2].val
    /\ req.out.val = Log[2].arg.val
    /\ req.out.ctx.status = StatusSetBy(Log[2].arg)
    /\ req.out.ctx.content_type = NewCtx.content_type
    /\ req.out.ctx.swagger_op = None
    /\ req.out.ctx.swagger_data = None

\* C5 as stated: for a route whose rule lies outside the base path the
\* wrapper never attempts the schema lookup and delegates directly to the
\* callback.
C5_Stated ==
    (Handled /\ OutsideBasePath) =>
        /\ Calls("_swagger_op") = {}
        /\ Calls("callback") # {}
        /\ Calls("_validate_request") = {}
        /\ Calls("_validate_response") = {}

\* C5 as amended: for a route whose rule lies outside the base path the
\* wrapper does attempt the schema lookup, as its first step on every route;
\* the lookup finds no operation and the wrapper then delegates directly to
\* the callback, with no validation and no error handler.
C5_Amended ==
    (Handled /\ OutsideBasePath) =>
        /\ Log[1].ev = "_swagger_op"
        /\ ~FoundOp
        /\ DelegatedDirectly

C5_Witness ==
    /\ Handled
    /\ OutsideBasePath
    /\ ~plugin.ignore_undefined_routes
    /\ DelegatedDirectly

\* the route is the schema endpoint or an explorer-UI endpoint, by the
\* wrapper's tests on its rule
IsCarvedOut ==
    \/ plugin.serve_swagger_schema /\ req.route.rule = plugin.swagger_schema_url
    \/ plugin.serve_swagger_ui /\ startswith(req.route.rule, plugin.swagger_ui_base_url)

PluginEndpoints == {"swagger_schema", "swagger_ui_index", "swagger_ui_assets"}

\* C8: every endpoint that setup registers (schema, UI index, UI assets) is
\* passed through to its own callback and never answered by the not-found
\* handler, whatever the base path, the sub-paths and the validation
\* settings.
C8_PluginEndpointsPassThrough ==
    (Handled /\ req.route.callback \in PluginEndpoints) =>
        /\ Calls("swagger_op_not_found_handler") = {}
        /\ DelegatedDirectly

(***************************************************************************)
(* Routes with an operation.                                               *)
(***************************************************************************)
\* C9: an HTTPResponse raised at any point on a matched route, by the
\* callback or by anything else the wrapper calls, leaves the wrapper as the
\* same object, and no handler is invoked for it.
C9_SignalPropagates ==
    (Handled /\ FoundOp) =>
        \A i \in 1..Len(Log) : (Log[i].raised /\ IsHTTPResponse(Log[i].val)) =>
            /\ i = Len(Log)
            /\ req.out.raised
            /\ req.out.val = Log[i].val

C9_Witness ==
    /\ Handled
    /\ FoundOp
    /\ Log[Len(Log)].ev = "callback"
    /\ req.out.raised
    /\ req.out.val = Exc("HTTPResponse", "callback")

\* the wrapper returns the JSON text of result under application/json
Serialized(result) ==
    /\ ~req.out.raised
    /\ req.out.val = [type |-> "json", of |-> result]
    /\ req.out.ctx.content_type = "application/json"

\* the wrapper returns result itself and leaves the content type alone
Unchanged(result) ==
    /\ ~req.out.raised
    /\ req.out.val = result
    /\ req.out.ctx.content_type = NewCtx.content_type

IsMappingOrList(result) == result.type \in {"dict", "list"}

\* C10 as stated: request and response passed validation; the wrapper
\* returns the JSON serialization of the callback's value under
\* application/json if and only if auto_jsonify is on and the value is a
\* dict or a list; otherwise it returns the value unchanged and leaves the
\* content type alone.  Stated where both validations are enabled, so that
\* having passed them says something.
C10_Stated ==
    (Handled /\ FoundOp /\ plugin.validate_requests /\ plugin.validate_responses) =>
        \A i \in 1..Len(Log) : (Log[i].ev = "_validate_response" /\ ~Log[i].raised) =>
            IF plugin.auto_jsonify /\ IsMappingOrList(Log[i].arg)
            THEN Serialized(Log[i].arg)
            ELSE Unchanged(Log[i].arg)

\* C10 as amended: as stated when JSON can encode the value; when
\* auto_jsonify is on and the value is a dict or a list that JSON cannot
\* encode, the encoder's exception goes to the generic exception handler,
\* whose result is returned, and the content type is not set by the wrapper.
C10_Amended ==
    (Handled /\ FoundOp) =>
        \A i \in 1..Len(Log) : (Log[i].ev = "_validate_response" /\ ~Log[i].raised) =>
            IF plugin.auto_jsonify /\ IsMappingOrList(Log[i].arg)
            THEN IF Log[i].arg.encodable
                 THEN Serialized(Log[i].arg)
                 ELSE /\ Log[i + 1].ev = "json_dumps"
                      /\ Log[i + 1].raised
                      /\ HandedTo(i + 1, "exception_handler")
                      /\ ~Log[i + 2].raised => ReturnsResultOf(i + 2)
                      /\ req.out.ctx.content_type = NewCtx.content_type
            ELSE Unchanged(Log[i].arg)

C10_Witness ==
    /\ Handled
    /\ FoundOp
    /\ plugin.auto_jsonify
    /\ \E i \in 1..Len(Log) :
          /\ Log[i].ev = "_validate_response"
          /\ ~Log[i].raised
          /\ Log[i].arg.type = "list"
          /\ Serialized(Log[i].arg)


\* C12: the two validation phases are switched off independently.  On a
\* matched route, with response validation disabled and request validation
\* enabled, the invalid-response handler is never invoked and what follows
\* the callback's return does not fail, whatever payload it returned and
\* whatever status it set, while a request violating the schema still goes
\* to the invalid-request handler; with request validation disabled and
\* response validation enabled, the invalid-request handler is never invoked
\* and a response violating its schema still goes to the invalid-response
\* handler.
C12_IndependentSwitches ==
    (Handled /\ FoundOp) =>
        /\ (~plugin.validate_responses /\ plugin.validate_requests) =>
              /\ Calls("invalid_response_handler") = {}
              /\ \A i \in 1..Len(Log) : Log[i].ev = "_validate_response" => ~Log[i].raised
              /\ \A i \in 1..Len(Log) : Log[i].ev = "_validate_request" =>
                    IF Log[i].raised
                    THEN RequestInvalid(i) => HandedTo(i, "invalid_request_handler")
                    ELSE Log[i].val.of # "invalid"
        /\ (~plugin.validate_requests /\ plugin.validate_responses) =>
              /\ Calls("invalid_request_handler") = {}
              /\ \A i \in 1..Len(Log) : Log[i].ev = "_validate_response" =>
                    /\ Log[i].raised <=>
                          ViolatesResponseSchema(StatusSetBy(Log[i - 1].arg), Log[i - 1].val)
                    /\ Log[i].raised => HandedTo(i, "invalid_response_handler")

\* C13: construction with a structurally valid document succeeds for every
\* combination of the serve-schema and serve-UI toggles, it fails only when
\* the document is malformed or fails structural validation; after setup,
\* with both toggles off the plugin has registered no endpoint, and with UI
\* serving on the schema endpoint is registered as well.
C13_ConstructionSucceeds ==
    /\ phase = "failed" => plugin.src = "Spec.from_dict"
    /\ phase = "ready" =>
          /\ (~plugin.serve_swagger_schema /\ ~plugin.serve_swagger_ui) => app = UserRoutes
          /\ plugin.serve_swagger_ui =>
                Route(plugin.swagger_schema_url, "GET", "swagger_schema") \in app

\* C15: in every run of the wrapper the callback is invoked at most once
\* and never after one of the four error handlers; on a matched route it is
\* invoked only with the resolved operation and the validated request data
\* (what request validation returned) both attached to the request; when
\* request validation fails the operation is attached and no validated
\* request data is.
C15_CallbackOrder ==
    Handled =>
        /\ Cardinality(Calls("callback")) <= 1
        /\ \A i \in Calls("callback") :
              \A j \in 1..Len(Log) : Log[j].ev \in ErrorHandlers => i < j
        /\ FoundOp =>
              \A i \in Calls("callback") :
                  /\ Log[i].swagger_op = Log[1].val
                  /\ \E j \in 1..(i - 1) :
                        /\ Log[j].ev = "_validate_request"
                        /\ ~Log[j].raised
                        /\ Log[i].swagger_data = Log[j].val
        /\ \A i \in 1..Len(Log) : (Log[i].ev = "_validate_request" /\ Log[i].raised) =>
              /\ req.out.ctx.swagger_op = Log[1].val
              /\ req.out.ctx.swagger_op # None
              /\ req.out.ctx.swagger_data = None

\* a matched route whose callback ran with both attached and was followed
\* by an error handler
C15_Witness ==
    /\ Handled
    /\ FoundOp
    /\ \E i \in Calls("callback") :
          /\ Log[i].swagger_op # None
          /\ Log[i].swagger_data # None
          /\ i < Len(Log)
          /\ Log[Len(Log)].ev \in ErrorHandlers

\* how the wrapper classified the route of the request in hand
Classified ==
    IF FoundOp THEN "matched"
    ELSE IF Log[2].ev = "swagger_op_not_found_handler" THEN "not found"
    ELSE "passed through"

\* how what construction fixed classifies a route: the operations under the
\* api url of the document handed to the constructor, then the wrapper's
\* pass-through tests on the plugin's attributes
ClassificationAtConstruction(route) ==
    IF \E op \in SchemaPaths :
          /\ op.method = lower(route.method)
          /\ rstrip(plugin.api_url_path, "/") \o op.path_name = TranslatePath(route.rule)
    THEN "matched"
    ELSE IF PassesThrough(plugin, route) THEN "passed through"
    ELSE "not found"

\* C14: once the plugin is installed, no request changes its attributes
\* (base path, schema URL, UI URL, toggles, handlers); of the document it
\* holds a request changes nothing but the top-level basePath; and every
\* request, whatever requests came before it, finds its route classified
\* (matched, passed through, not found) as construction fixed it.
C14_ConfigurationFixed ==
    /\ [][phase = "ready" =>
            /\ plugin' = plugin
            /\ [spec_dict' EXCEPT !.basePath = spec_dict.basePath] = spec_dict]_vars
    /\ [](Handled => Classified = ClassificationAtConstruction(req.route))

\* a matched route handled after a schema request has changed the
\* document's basePath
C14_Witness ==
    /\ Handled
    /\ FoundOp
    /\ spec_dict.basePath # NoneStr
    /\ spec_dict.basePath \notin {plugin.swagger_base_path, plugin.api_url_path}

\* the mount prefix joined with the configured base path
JoinedBasePath(script_name, base_path) ==
    <<"/">> \o (IF strip(script_name, "/") = <<>> THEN <<>> ELSE strip(script_name, "/") \o <<"/">>)
           \o lstrip(base_path, "/")

\* C11: with base-path adjustment enabled and a document that has a
\* basePath, every response of the schema endpoint carries as basePath the
\* join of its own request's SCRIPT_NAME with the configured base path,
\* however the schema requests of the server's threads interleave.
C11_OwnMountPrefix ==
    \A t \in DOMAIN threads :
        (threads[t].pc = "responded" /\ plugin.adjust_api_base_path /\ spec_dict.basePath # NoneStr) =>
            threads[t].basePath = JoinedBasePath(threads[t].script_name, plugin.swagger_base_path)

=============================================================================
